---- MODULE Spec2Model ----
(***************************************************************************)
(* Model of the request handlers of app/routers/category.py: the category *)
(* and product CRUD handlers, the product count / statistics aggregates   *)
(* and the paginated / advanced search.  The store is the content of the  *)
(* two tables the handlers read and write through the session.            *)
(***************************************************************************)
EXTENDS Integers, Sequences, FiniteSets, TLC

\* ------------------------------------------------------------- bounds
\* Highest identifier the category auto-increment hands out in the model.
MaxCategories == 2
\* Number of product rows the store can hold (identifiers 1..MaxProducts).
MaxProducts == 2

\* ---------------------------------------------------- program constants
HTTP_200_OK == 200
HTTP_201_CREATED == 201
HTTP_204_NO_CONTENT == 204
HTTP_400_BAD_REQUEST == 400
HTTP_404_NOT_FOUND == 404

\* ------------------------------------------------------ value domains
\* Python None / SQL NULL of a text value.
NULL == "NULL"
\* An optional number, flag or query parameter: <<>> is None, <<v>> is v.
None == <<>>
Some(v) == <<v>>
Optional(values) == {None} \cup {Some(v) : v \in values}

CategoryNames == {"Books", "Toys"}
\* CategoryCreate.description / CategoryUpdate.description: None when the
\* field is absent, otherwise a string.
CategoryDescriptions == {NULL, "d"}
\* Product names are character sequences (the search matches inside them).
ProductNames == {<<"a", "b">>, <<"A", "_">>}
ProductDescriptions == {NULL, "p"}
Prices == {10, 30}
\* Identifiers a request can carry; one that is free, never assigned or
\* deleted references no row.
CategoryIds == 1..MaxCategories
ProductIds == 1..MaxProducts

ProductFields == {"name", "description", "price", "in_stock", "category_id"}

\* The two requests of the create_category race.
Workers == {"w1", "w2"}

VARIABLES
    categories,        \* rows of the categories table
    products,          \* rows of the products table
    next_category_id,  \* next identifier the categories table assigns
    request,           \* the request being answered
    response,          \* the handler's answer to it
    queried,           \* the tables the handler queried to answer it
    sessions           \* the create_category requests in flight, per worker

vars == <<categories, products, next_category_id, request, response, queried, sessions>>

\* ------------------------------------------------------------ helpers
\* HTTPException(status_code, detail): detail is the message template and
\* args the values formatted into it.
HTTPException(status_code, detail, args) ==
    [status |-> status_code, detail |-> detail, args |-> args, body |-> <<>>]

Ok(status_code, body) ==
    [status |-> status_code, detail |-> "", args |-> <<>>, body |-> body]

\* session.query(Category).get(category_id): the rows with that key.
CategoryById(category_id) == {c \in categories : c.id = category_id}

\* session.query(Product).filter(Product.id == product_id)
ProductById(product_id) == {p \in products : p.id = product_id}

\* session.query(Category).filter(Category.name == name).first() is a row
ExistingCategoryNamed(name) == \E c \in categories : c.name = name

\* existing_category.products.count()
LinkedProducts(category_id) ==
    Cardinality({p \in products : p.category_id = category_id})

\* Category(name=data.name, description=data.description) with the key the
\* table assigns on commit.
NewCategory(data) ==
    [id |-> next_category_id, name |-> data.name, description |-> data.description]

\* The requests a client can send to update_product: every field is either
\* absent or carries a value; updates.dict(exclude_unset=True) is the map of
\* the supplied fields.  A supplied description may be null; the other
\* fields, which the table requires, are supplied with a value.
ProductUpdateRequest ==
    { [k \in {f \in ProductFields : opt[f] # None} |-> opt[k][1]] :
        opt \in [ name : Optional(ProductNames),
                  description : Optional(ProductDescriptions),
                  price : Optional(Prices),
                  in_stock : Optional(BOOLEAN),
                  category_id : Optional(CategoryIds) ] }

\* The requests that supply fields of `fields` only.
UpdatesOver(fields) == {u \in ProductUpdateRequest : DOMAIN u \subseteq fields}

CategoryCreate == [name : CategoryNames, description : CategoryDescriptions]

\* An update may also carry the empty description, which Python treats as
\* false.
CategoryUpdate ==
    [name : CategoryNames \cup {NULL}, description : CategoryDescriptions \cup {""}]

\* ---------------------------------------------------------------- Init
\* The category tables the service can start from: keys 1..n without gaps,
\* distinct names.
InitialCategories ==
    UNION { { {[id |-> i, name |-> f[i].name, description |-> f[i].description] : i \in 1..n} :
                f \in { g \in [1..n -> [name : CategoryNames,
                                        description : CategoryDescriptions]] :
                          \A i, j \in 1..n : g[i].name = g[j].name => i = j } } :
            n \in 0..MaxCategories }

\* The product tables over the keys `ids` whose rows are drawn from `rows`:
\* every key is either free or holds one row.
ProductTables(ids, rows) ==
    LET Slots == [ids -> Optional(rows)]
    IN { { [id |-> i, name |-> s[i][1].name, description |-> s[i][1].description,
            price |-> s[i][1].price, in_stock |-> s[i][1].in_stock,
            category_id |-> s[i][1].category_id] :
              i \in {j \in ids : s[j] # None} } : s \in Slots }

\* No request has been answered yet and none is in flight.
NoRequest ==
    /\ request = [op |-> "none"]
    /\ response = Ok(HTTP_200_OK, <<>>)
    /\ queried = {}
    /\ sessions = [w \in Workers |->
                      [pc |-> "idle", data |-> [name |-> NULL, description |-> NULL],
                       existing_category |-> FALSE, status |-> HTTP_200_OK]]

\* Category life cycle: the stored products differ in the category they
\* reference, each referencing a stored category.
Init ==
    /\ categories \in InitialCategories
    /\ products \in ProductTables(1..MaxProducts,
            [name : {<<"a", "b">>}, description : {NULL}, price : {10},
             in_stock : {TRUE}, category_id : {c.id : c \in categories}])
    /\ next_category_id = Cardinality(categories) + 1
    /\ NoRequest

\* ------------------------------------------------------- category CRUD
\* create_category without the look-up of an existing name.
create_category_unchecked(data) ==
    /\ request' = [op |-> "create_category", data |-> data]
    /\ UNCHANGED sessions
    /\ queried' = {}
    /\ next_category_id <= MaxCategories
    /\ categories' = categories \cup {NewCategory(data)}
    /\ response' = Ok(HTTP_201_CREATED, NewCategory(data))
    /\ next_category_id' = next_category_id + 1
    /\ UNCHANGED products

\* POST /  (create_category)
create_category(data) ==
    /\ request' = [op |-> "create_category", data |-> data]
    /\ UNCHANGED sessions
    /\ queried' = {"categories"}
    /\ IF ExistingCategoryNamed(data.name)
       THEN /\ response' = HTTPException(HTTP_400_BAD_REQUEST,
                                "Category with this name already exists", <<>>)
            /\ UNCHANGED <<categories, products, next_category_id>>
       ELSE /\ next_category_id <= MaxCategories
            /\ categories' = categories \cup {NewCategory(data)}
            /\ response' = Ok(HTTP_201_CREATED, NewCategory(data))
            /\ next_category_id' = next_category_id + 1
            /\ UNCHANGED products

\* PUT /{category_id}  (update_category)
update_category(category_id, data) ==
    /\ request' = [op |-> "update_category", category_id |-> category_id,
                   data |-> data]
    /\ UNCHANGED sessions
    /\ queried' = {"categories"}
    /\ UNCHANGED <<products, next_category_id>>
    /\ IF CategoryById(category_id) = {}
       THEN /\ response' = HTTPException(HTTP_404_NOT_FOUND, "Category not found", <<>>)
            /\ UNCHANGED categories
       ELSE IF ExistingCategoryNamed(data.name)
       THEN /\ response' = HTTPException(HTTP_400_BAD_REQUEST,
                                "Category with name 'Electronics' already exists", <<>>)
            /\ UNCHANGED categories
       ELSE LET existing_category == CHOOSE c \in CategoryById(category_id) : TRUE
                updated ==
                    [id |-> existing_category.id,
                     name |-> IF data.name # NULL THEN data.name
                              ELSE existing_category.name,
                     description |->
                         IF data.description # NULL /\ data.description # ""
                         THEN data.description
                         ELSE existing_category.description]
            IN /\ categories' = (categories \ {existing_category}) \cup {updated}
               /\ response' = Ok(HTTP_204_NO_CONTENT, updated)

\* delete_category that blocks only from the second linked product on.
delete_category_off_by_one(category_id) ==
    /\ request' = [op |-> "delete_category", category_id |-> category_id]
    /\ UNCHANGED sessions
    /\ UNCHANGED <<products, next_category_id>>
    /\ IF CategoryById(category_id) = {}
       THEN /\ response' = HTTPException(HTTP_404_NOT_FOUND, "Category not found", <<>>)
            /\ queried' = {"categories"}
            /\ UNCHANGED categories
       ELSE LET n_products == LinkedProducts(category_id)
            IN /\ queried' = {"categories", "products"}
               /\ IF n_products > 1
                  THEN /\ response' = HTTPException(HTTP_400_BAD_REQUEST,
                           "Cannot delete category. {products} products are linked to this category",
                           <<n_products>>)
                       /\ UNCHANGED categories
                  ELSE /\ categories' = categories \ CategoryById(category_id)
                       /\ response' = Ok(HTTP_204_NO_CONTENT, "Category deleted successfully")

\* DELETE /{category_id}  (delete_category)
delete_category(category_id) ==
    /\ request' = [op |-> "delete_category", category_id |-> category_id]
    /\ UNCHANGED sessions
    /\ UNCHANGED <<products, next_category_id>>
    /\ IF CategoryById(category_id) = {}
       THEN /\ response' = HTTPException(HTTP_404_NOT_FOUND, "Category not found", <<>>)
            /\ queried' = {"categories"}
            /\ UNCHANGED categories
       ELSE LET n_products == LinkedProducts(category_id)
            IN /\ queried' = {"categories", "products"}
               /\ IF n_products > 0
                  THEN /\ response' = HTTPException(HTTP_400_BAD_REQUEST,
                           "Cannot delete category. {products} products are linked to this category",
                           <<n_products>>)
                       /\ UNCHANGED categories
                  ELSE /\ categories' = categories \ CategoryById(category_id)
                       /\ response' = Ok(HTTP_204_NO_CONTENT, "Category deleted successfully")

\* -------------------------------------------------------- product CRUD
\* update_product that takes in_stock, when absent, as its creation
\* default (True), as a whole-model dump of the request would.
update_product_default_stock(product_id, updates) ==
    /\ request' = [op |-> "update_product", product_id |-> product_id,
                   updates |-> updates]
    /\ UNCHANGED sessions
    /\ queried' = {"products"}
    /\ UNCHANGED <<categories, next_category_id>>
    /\ IF ProductById(product_id) = {}
       THEN /\ response' = HTTPException(HTTP_404_NOT_FOUND,
                                "Product with id {product_id} not found", <<product_id>>)
            /\ UNCHANGED products
       ELSE LET product == CHOOSE p \in ProductById(product_id) : TRUE
                updated == [k \in DOMAIN product |->
                               IF k \in DOMAIN updates THEN updates[k]
                               ELSE IF k = "in_stock" THEN TRUE
                               ELSE product[k]]
            IN /\ products' = (products \ {product}) \cup {updated}
               /\ response' = Ok(HTTP_200_OK, updated)

\* PUT /{product_id}  (update_product)
update_product(product_id, updates) ==
    /\ request' = [op |-> "update_product", product_id |-> product_id,
                   updates |-> updates]
    /\ UNCHANGED sessions
    /\ queried' = {"products"}
    /\ UNCHANGED <<categories, next_category_id>>
    /\ IF ProductById(product_id) = {}
       THEN /\ response' = HTTPException(HTTP_404_NOT_FOUND,
                                "Product with id {product_id} not found", <<product_id>>)
            /\ UNCHANGED products
       ELSE LET product == CHOOSE p \in ProductById(product_id) : TRUE
                update_data == updates
                updated == [k \in DOMAIN product |->
                               IF k \in DOMAIN update_data THEN update_data[k]
                               ELSE product[k]]
            IN /\ products' = (products \ {product}) \cup {updated}
               /\ response' = Ok(HTTP_200_OK, updated)

\* DELETE /{product_id}  (delete_product)
delete_product(product_id) ==
    /\ request' = [op |-> "delete_product", product_id |-> product_id]
    /\ UNCHANGED sessions
    /\ queried' = {"products"}
    /\ UNCHANGED <<categories, next_category_id>>
    /\ IF ProductById(product_id) = {}
       THEN /\ response' = HTTPException(HTTP_404_NOT_FOUND,
                                "Product with id {product_id} not found", <<product_id>>)
            /\ UNCHANGED products
       ELSE /\ products' = products \ ProductById(product_id)
            /\ response' = Ok(HTTP_200_OK, "Product o'chirildi")

\* ------------------------------------------------------ specification
\* update_product requests that move a product to another category (or
\* supply nothing).
MoveRequests == UpdatesOver({"category_id"})

\* Requests answered one at a time: the category life cycle with products
\* moved between categories and deleted.
Next ==
    \/ \E data \in CategoryCreate : create_category(data)
    \/ \E category_id \in CategoryIds, data \in CategoryUpdate :
          update_category(category_id, data)
    \/ \E category_id \in CategoryIds : delete_category(category_id)
    \/ \E product_id \in ProductIds, updates \in MoveRequests :
          update_product(product_id, updates)
    \/ \E product_id \in ProductIds : delete_product(product_id)

Spec == Init /\ [][Next]_vars

\* ---------------------------------------------------------- aggregates
\* query.count() over the rows the query's filters keep
Count(rows) == Cardinality(rows)

RECURSIVE SumOfPrices(_)
\* the sum func.avg(Product.price) divides by the number of rows
SumOfPrices(rows) ==
    IF rows = {} THEN 0
    ELSE LET r == CHOOSE x \in rows : TRUE
         IN r.price + SumOfPrices(rows \ {r})

\* get_products_count whose in-stock count ignores the request's filters.
get_products_count_unfiltered(category_id, in_stock) ==
    /\ request' = [op |-> "get_products_count", category_id |-> category_id,
                   in_stock |-> in_stock]
    /\ UNCHANGED <<categories, products, next_category_id, sessions>>
    /\ IF category_id # None /\ CategoryById(category_id[1]) = {}
       THEN /\ response' = HTTPException(HTTP_404_NOT_FOUND,
                                "Category with id {category_id} not found", category_id)
            /\ queried' = {"categories"}
       ELSE LET by_category == IF category_id # None
                               THEN {p \in products : p.category_id = category_id[1]}
                               ELSE products
                query == IF in_stock # None
                         THEN {p \in by_category : p.in_stock = in_stock[1]}
                         ELSE by_category
                total == Count(query)
                in_stock_count == Count({p \in products : p.in_stock = TRUE})
                out_of_stock_count == total - in_stock_count
            IN /\ response' = Ok(HTTP_200_OK,
                                 [total |-> total, in_stock |-> in_stock_count,
                                  out_of_stock |-> out_of_stock_count])
               /\ queried' = IF category_id # None THEN {"categories", "products"}
                             ELSE {"products"}

\* GET /count  (get_products_count)
get_products_count(category_id, in_stock) ==
    /\ request' = [op |-> "get_products_count", category_id |-> category_id,
                   in_stock |-> in_stock]
    /\ UNCHANGED <<categories, products, next_category_id, sessions>>
    /\ IF category_id # None /\ CategoryById(category_id[1]) = {}
       THEN /\ response' = HTTPException(HTTP_404_NOT_FOUND,
                                "Category with id {category_id} not found", category_id)
            /\ queried' = {"categories"}
       ELSE LET by_category == IF category_id # None
                               THEN {p \in products : p.category_id = category_id[1]}
                               ELSE products
                query == IF in_stock # None
                         THEN {p \in by_category : p.in_stock = in_stock[1]}
                         ELSE by_category
                total == Count(query)
                in_stock_count == Count({p \in query : p.in_stock = TRUE})
                out_of_stock_count == total - in_stock_count
            IN /\ response' = Ok(HTTP_200_OK,
                                 [total |-> total, in_stock |-> in_stock_count,
                                  out_of_stock |-> out_of_stock_count])
               /\ queried' = IF category_id # None THEN {"categories", "products"}
                             ELSE {"products"}

\* session.query(Product).order_by(desc(Product.price)).first(): a row of the
\* highest price (which one, among equals, the store decides), None if the
\* table is empty.
FirstByPriceDesc ==
    IF products = {} THEN {None}
    ELSE {Some(p) : p \in {x \in products : \A y \in products : y.price <= x.price}}

\* session.query(Product).order_by(asc(Product.price)).first()
FirstByPriceAsc ==
    IF products = {} THEN {None}
    ELSE {Some(p) : p \in {x \in products : \A y \in products : y.price >= x.price}}

\* {"id": ..., "name": ..., "price": ...} if the row exists else None
ProductSummary(row) ==
    IF row = None THEN None
    ELSE Some([id |-> row[1].id, name |-> row[1].name, price |-> row[1].price])

\* The body get_products_statistics returns when the two first() queries
\* return most_expensive and cheapest.
Statistics(most_expensive, cheapest) ==
    LET total_products == Count(products)
        total_categories == Count(categories)
        in_stock_count == Count({p \in products : p.in_stock = TRUE})
        out_of_stock_count == IF total_products # 0
                              THEN total_products - in_stock_count ELSE 0
        \* func.avg / func.min / func.max are NULL over no rows; the average
        \* is kept as the fraction sum / count
        average_price == IF products = {} THEN None
                         ELSE <<SumOfPrices(products), Count(products)>>
        min_price == IF products = {} THEN None
                     ELSE Some(CHOOSE v \in {p.price : p \in products} :
                                  \A p \in products : v <= p.price)
        max_price == IF products = {} THEN None
                     ELSE Some(CHOOSE v \in {p.price : p \in products} :
                                  \A p \in products : v >= p.price)
    IN [total_products |-> total_products,
        total_categories |-> total_categories,
        in_stock_count |-> in_stock_count,
        out_of_stock_count |-> out_of_stock_count,
        average_price |-> average_price,
        min_price |-> min_price,
        max_price |-> max_price,
        most_expensive_product |-> ProductSummary(most_expensive),
        cheapest_product |-> ProductSummary(cheapest)]

\* get_products_statistics with the most expensive product taken from the
\* ascending order.
get_products_statistics_asc ==
    /\ request' = [op |-> "get_products_statistics"]
    /\ UNCHANGED <<categories, products, next_category_id, sessions>>
    /\ queried' = {"categories", "products"}
    /\ \E most_expensive \in FirstByPriceAsc, cheapest \in FirstByPriceAsc :
          response' = Ok(HTTP_200_OK, Statistics(most_expensive, cheapest))

\* GET /statistics  (get_products_statistics)
get_products_statistics ==
    /\ request' = [op |-> "get_products_statistics"]
    /\ UNCHANGED <<categories, products, next_category_id, sessions>>
    /\ queried' = {"categories", "products"}
    /\ \E most_expensive \in FirstByPriceDesc, cheapest \in FirstByPriceAsc :
          response' = Ok(HTTP_200_OK, Statistics(most_expensive, cheapest))

\* The stores the aggregates are taken over: products of either price, in
\* stock or not, in any stored category.
InitStats ==
    /\ categories \in InitialCategories
    /\ products \in ProductTables(1..MaxProducts,
            [name : {<<"a", "b">>}, description : {NULL}, price : Prices,
             in_stock : BOOLEAN, category_id : {c.id : c \in categories}])
    /\ next_category_id = Cardinality(categories) + 1
    /\ NoRequest

\* Counts and statistics, asked between deletions of products.
NextStats ==
    \/ \E product_id \in ProductIds : delete_product(product_id)
    \/ \E category_id \in Optional(CategoryIds), in_stock \in Optional(BOOLEAN) :
          get_products_count(category_id, in_stock)
    \/ get_products_statistics

SpecStats == InitStats /\ [][NextStats]_vars

\* -------------------------------------------------------------- search
\* The lower-case form of a character, as ILIKE compares them.
Lower(ch) == CASE ch = "A" -> "a" [] ch = "B" -> "b" [] OTHER -> ch

RECURSIVE Like(_, _)
\* text ILIKE pattern: % matches any run of characters, _ any one character,
\* every other character itself, whatever its case.
Like(text, pattern) ==
    IF pattern = <<>> THEN text = <<>>
    ELSE IF Head(pattern) = "%"
         THEN \/ Like(text, Tail(pattern))
              \/ text # <<>> /\ Like(Tail(text), pattern)
    ELSE IF text = <<>> THEN FALSE
    ELSE IF Head(pattern) = "_" THEN Like(Tail(text), Tail(pattern))
    ELSE /\ Lower(Head(text)) = Lower(Head(pattern))
         /\ Like(Tail(text), Tail(pattern))

\* Product.name.ilike(f"%{name}%")
NameILike(product_name, name) == Like(product_name, <<"%">> \o name \o <<"%">>)

\* The place of a character in the ordering of names.
Rank(ch) ==
    CASE ch = "A" -> 65 [] ch = "B" -> 66 [] ch = "_" -> 95
      [] ch = "a" -> 97 [] ch = "b" -> 98 [] OTHER -> 0

RECURSIVE NameLessOrEqual(_, _)
\* n1 <= n2 in the order asc(Product.name) sorts by
NameLessOrEqual(n1, n2) ==
    IF n1 = <<>> THEN TRUE
    ELSE IF n2 = <<>> THEN FALSE
    ELSE IF Rank(Head(n1)) # Rank(Head(n2)) THEN Rank(Head(n1)) < Rank(Head(n2))
    ELSE NameLessOrEqual(Tail(n1), Tail(n2))

\* row r1 may precede row r2 under order_by(sort_by); without an order_by
\* the store returns the rows in an order of its own.
MayPrecede(r1, r2, sort_by) ==
    CASE sort_by = Some("price_asc") -> r1.price <= r2.price
      [] sort_by = Some("price_desc") -> r1.price >= r2.price
      [] sort_by = Some("name_asc") -> NameLessOrEqual(r1.name, r2.name)
      [] sort_by = Some("name_desc") -> NameLessOrEqual(r2.name, r1.name)
      [] OTHER -> TRUE

\* The sequences query.order_by(...).all() can return for the rows `rows`.
Orderings(rows, sort_by) ==
    { seq \in [1..Cardinality(rows) -> rows] :
        /\ \A i, j \in 1..Cardinality(rows) : seq[i] = seq[j] => i = j
        /\ \A i, j \in 1..Cardinality(rows) :
              i < j => MayPrecede(seq[i], seq[j], sort_by) }

\* .offset(offset).limit(limit) of an ordered result
Page(ordered, limit, offset) ==
    SubSeq(ordered, offset + 1,
           IF offset + limit < Len(ordered) THEN offset + limit ELSE Len(ordered))

\* The query parameters of advanced_search_products.
SearchNames == {<<"B">>, <<"_">>}
PriceBounds == {0, 20}
SortKeys == {"price_asc", "price_desc", "name_asc", "name_desc"}
AdvancedSearchParams ==
    [name : Optional(SearchNames), category_id : Optional(CategoryIds),
     min_price : Optional(PriceBounds), max_price : Optional(PriceBounds),
     in_stock : Optional(BOOLEAN), sort_by : Optional(SortKeys),
     limit : 1..MaxProducts, offset : 0..MaxProducts]

\* The rows left by the filters advanced_search_products adds to the query.
Filtered(q) ==
    LET by_name == IF q.name # None /\ q.name[1] # <<>>
                   THEN {p \in products : NameILike(p.name, q.name[1])}
                   ELSE products
        by_category == IF q.category_id # None /\ q.category_id[1] # 0
                       THEN {p \in by_name : p.category_id = q.category_id[1]}
                       ELSE by_name
        by_min == IF q.min_price # None
                  THEN {p \in by_category : p.price >= q.min_price[1]}
                  ELSE by_category
        by_max == IF q.max_price # None
                  THEN {p \in by_min : p.price <= q.max_price[1]}
                  ELSE by_min
    IN IF q.in_stock # None
       THEN {p \in by_max : p.in_stock = q.in_stock[1]}
       ELSE by_max

\* advanced_search_products that looks the category up before it compares
\* the price bounds.
advanced_search_products_category_first(q) ==
    /\ request' = [op |-> "advanced_search_products", query |-> q]
    /\ UNCHANGED <<categories, products, next_category_id, sessions>>
    /\ IF q.category_id # None /\ CategoryById(q.category_id[1]) = {}
       THEN /\ response' = HTTPException(HTTP_404_NOT_FOUND,
                                "Category with id {category_id} not found", q.category_id)
            /\ queried' = {"categories"}
       ELSE IF q.min_price # None /\ q.max_price # None
               /\ q.min_price[1] > q.max_price[1]
       THEN /\ response' = HTTPException(HTTP_400_BAD_REQUEST,
                                "min_price cannot be greater than max_price", <<>>)
            /\ queried' = IF q.category_id # None THEN {"categories"} ELSE {}
       ELSE /\ queried' = IF q.category_id # None THEN {"categories", "products"}
                          ELSE {"products"}
            /\ \E ordered \in Orderings(Filtered(q), q.sort_by) :
                  response' = Ok(HTTP_200_OK,
                                 [total |-> Count(Filtered(q)), limit |-> q.limit,
                                  offset |-> q.offset,
                                  items |-> Page(ordered, q.limit, q.offset)])

\* GET /advanced-search  (advanced_search_products)
advanced_search_products(q) ==
    /\ request' = [op |-> "advanced_search_products", query |-> q]
    /\ UNCHANGED <<categories, products, next_category_id, sessions>>
    /\ IF q.min_price # None /\ q.max_price # None
          /\ q.min_price[1] > q.max_price[1]
       THEN /\ response' = HTTPException(HTTP_400_BAD_REQUEST,
                                "min_price cannot be greater than max_price", <<>>)
            /\ queried' = {}
       ELSE IF q.category_id # None /\ CategoryById(q.category_id[1]) = {}
       THEN /\ response' = HTTPException(HTTP_404_NOT_FOUND,
                                "Category with id {category_id} not found", q.category_id)
            /\ queried' = {"categories"}
       ELSE /\ queried' = IF q.category_id # None THEN {"categories", "products"}
                          ELSE {"products"}
            /\ \E ordered \in Orderings(Filtered(q), q.sort_by) :
                  response' = Ok(HTTP_200_OK,
                                 [total |-> Count(Filtered(q)), limit |-> q.limit,
                                  offset |-> q.offset,
                                  items |-> Page(ordered, q.limit, q.offset)])

\* GET /paginated  (get_products_paginated)
get_products_paginated(limit, offset) ==
    /\ request' = [op |-> "get_products_paginated", limit |-> limit,
                   offset |-> offset]
    /\ UNCHANGED <<categories, products, next_category_id, sessions>>
    /\ queried' = {"products"}
    /\ \E ordered \in Orderings(products, None) :
          response' = Ok(HTTP_200_OK,
                         [total |-> Count(products), limit |-> limit,
                          offset |-> offset,
                          items |-> Page(ordered, limit, offset)])

\* The stores searched.  The search reads only the keys of the categories,
\* so one naming of them is taken; the products are either cheap, in stock
\* and named "ab" or dear, out of stock and named "A_".
InitSearch ==
    /\ categories \in {cs \in InitialCategories :
                          \A c \in cs : /\ c.description = NULL
                                        /\ c.id = 1 => c.name = "Books"}
    /\ products \in ProductTables(1..MaxProducts,
            [name : {<<"a", "b">>}, description : {NULL}, price : {10},
             in_stock : {TRUE}, category_id : {c.id : c \in categories}]
            \cup
            [name : {<<"A", "_">>}, description : {NULL}, price : {30},
             in_stock : {FALSE}, category_id : {c.id : c \in categories}])
    /\ next_category_id = Cardinality(categories) + 1
    /\ NoRequest

\* One search or listing request answered over a store.
NextSearch ==
    \/ /\ request.op = "none"
       /\ \E q \in AdvancedSearchParams : advanced_search_products(q)
    \/ /\ request.op = "none"
       /\ \E limit \in 1..MaxProducts, offset \in 0..MaxProducts :
             get_products_paginated(limit, offset)

SpecSearch == InitSearch /\ [][NextSearch]_vars

\* --------------------------------------------- partial-update requests
\* Field values of the stored products an update request is applied to: a
\* row either holds the first value of every field or the second.
UpdatedRows(category_ids) ==
    [name : {<<"a", "b">>}, description : {NULL}, price : {10},
     in_stock : {TRUE}, category_id : category_ids]
    \cup
    [name : {<<"A", "_">>}, description : {"p"}, price : {30},
     in_stock : {FALSE}, category_id : category_ids]

InitUpdate ==
    /\ categories \in InitialCategories
    /\ products \in ProductTables(1..MaxProducts,
                                  UpdatedRows({c.id : c \in categories}))
    /\ next_category_id = Cardinality(categories) + 1
    /\ NoRequest

\* One update request, of any shape, applied to a store.
NextUpdate ==
    \/ /\ request.op = "none"
       /\ \E product_id \in ProductIds, updates \in ProductUpdateRequest :
             update_product(product_id, updates)
    \/ /\ request.op = "none"
       /\ \E category_id \in CategoryIds, data \in CategoryUpdate :
             update_category(category_id, data)

SpecUpdate == InitUpdate /\ [][NextUpdate]_vars

\* --------------------------------------------- concurrent create_category
\* Two create_category requests, each in a session of its own: the look-up
\* of the name and the insert with its commit are separate statements, and
\* the statements of the two requests interleave.

\* existing_category = session.query(Category).filter(...).first()
create_category_query(w, data) ==
    /\ sessions[w].pc # "checked"
    /\ sessions' = [sessions EXCEPT ![w] =
                       [pc |-> "checked", data |-> data,
                        existing_category |-> ExistingCategoryNamed(data.name),
                        status |-> HTTP_200_OK]]
    /\ UNCHANGED <<categories, products, next_category_id, request, response, queried>>

\* The insert refused when the name is stored by then, as a unique
\* constraint of the table would.
create_category_commit_unique(w) ==
    /\ sessions[w].pc = "checked"
    /\ UNCHANGED <<products, request, response, queried>>
    /\ IF sessions[w].existing_category \/ ExistingCategoryNamed(sessions[w].data.name)
       THEN /\ sessions' = [sessions EXCEPT ![w].pc = "done",
                                            ![w].status = HTTP_400_BAD_REQUEST]
            /\ UNCHANGED <<categories, next_category_id>>
       ELSE /\ next_category_id <= MaxCategories
            /\ categories' = categories \cup {NewCategory(sessions[w].data)}
            /\ next_category_id' = next_category_id + 1
            /\ sessions' = [sessions EXCEPT ![w].pc = "done",
                                            ![w].status = HTTP_201_CREATED]

\* if existing_category: raise ...; session.add(new_category); session.commit()
create_category_commit(w) ==
    /\ sessions[w].pc = "checked"
    /\ UNCHANGED <<products, request, response, queried>>
    /\ IF sessions[w].existing_category
       THEN /\ sessions' = [sessions EXCEPT ![w].pc = "done",
                                            ![w].status = HTTP_400_BAD_REQUEST]
            /\ UNCHANGED <<categories, next_category_id>>
       ELSE /\ next_category_id <= MaxCategories
            /\ categories' = categories \cup {NewCategory(sessions[w].data)}
            /\ next_category_id' = next_category_id + 1
            /\ sessions' = [sessions EXCEPT ![w].pc = "done",
                                            ![w].status = HTTP_201_CREATED]

InitRace ==
    /\ categories \in InitialCategories
    /\ products = {}
    /\ next_category_id = Cardinality(categories) + 1
    /\ NoRequest

NextRace ==
    \/ \E w \in Workers, data \in CategoryCreate : create_category_query(w, data)
    \/ \E w \in Workers : create_category_commit(w)

SpecRace == InitRace /\ [][NextRace]_vars

\* ------------------------------------------------------------- claims
\* C1: delete_category on a stored category removes it and succeeds when no
\* product references it; when k >= 1 products reference it the call fails
\* with 400, the message carries exactly k, and both tables are unchanged.
DeleteCategoryBlockedByLinkedProducts ==
    [][ (request'.op = "delete_category" /\ CategoryById(request'.category_id) # {}) =>
          LET k == LinkedProducts(request'.category_id)
          IN IF k = 0
             THEN /\ response'.status = HTTP_204_NO_CONTENT
                  /\ categories' = categories \ CategoryById(request'.category_id)
                  /\ products' = products
             ELSE /\ response'.status = HTTP_400_BAD_REQUEST
                  /\ response'.args = <<k>>
                  /\ categories' = categories
                  /\ products' = products ]_vars

\* C1 witness: a delete refused because two products reference the category.
DeleteCategoryRefusedForTwoProducts ==
    /\ request.op = "delete_category"
    /\ response.status = HTTP_400_BAD_REQUEST
    /\ response.args = <<2>>
    /\ LinkedProducts(request.category_id) = 2

\* C2: no two stored categories have the same name, and a create_category
\* whose name is already stored fails with 400 and adds no category.
CategoryNamesStayUnique ==
    /\ [](\A c1, c2 \in categories : c1.name = c2.name => c1 = c2)
    /\ [][ (request'.op = "create_category"
             /\ \E c \in categories : c.name = request'.data.name) =>
               (response'.status = HTTP_400_BAD_REQUEST /\ categories' = categories) ]_vars

\* C2 witness: a create_category refused for a name that is stored.
CreateCategoryRefusedAsDuplicate ==
    /\ request.op = "create_category"
    /\ response.status = HTTP_400_BAD_REQUEST
    /\ \E c \in categories : c.name = request.data.name

\* C8: update_category on a stored category fails with the duplicate-name
\* error only when another category holds the supplied name.  (The failed
\* update leaves the table as it was, so the state after it shows the names
\* the handler saw.)
UpdateCategoryDuplicateOnlyForOthers ==
    (request.op = "update_category" /\ response.status = HTTP_400_BAD_REQUEST) =>
        \E c \in categories :
            c.id # request.category_id /\ c.name = request.data.name

\* C10: every stored product references a stored category.
EveryProductHasStoredCategory ==
    \A p \in products : \E c \in categories : c.id = p.category_id

\* C3: update_product and update_category leave every field that the request
\* does not supply as it was, and modify no other product or category.
UpdatesChangeOnlySuppliedFields ==
    [][ /\ (request'.op = "update_product" /\ ProductById(request'.product_id) # {}) =>
              \E before \in products, after \in products' :
                  /\ before.id = request'.product_id
                  /\ after.id = before.id
                  /\ \A f \in ProductFields \ DOMAIN request'.updates :
                        after[f] = before[f]
                  /\ products' \ {after} = products \ {before}
                  /\ categories' = categories
        /\ (request'.op = "update_category" /\ CategoryById(request'.category_id) # {}) =>
              \E before \in categories, after \in categories' :
                  /\ before.id = request'.category_id
                  /\ after.id = before.id
                  /\ request'.data.name = NULL => after.name = before.name
                  /\ request'.data.description = NULL =>
                        after.description = before.description
                  /\ categories' \ {after} = categories \ {before}
                  /\ products' = products ]_vars

\* C3 witness: an update carrying only a price has been applied to one of
\* two stored products, whose other fields hold the second values.
PriceOnlyUpdateApplied ==
    /\ request.op = "update_product"
    /\ DOMAIN request.updates = {"price"}
    /\ response.status = HTTP_200_OK
    /\ Cardinality(products) = 2
    /\ \E p \in products :
          /\ p.id = request.product_id
          /\ p.price = 10
          /\ p.name = <<"A", "_">> /\ p.in_stock = FALSE /\ p.description = "p"

\* C6: get_products_count with an absent or stored category_id returns the
\* number of products matching the filter as total, the number of those in
\* stock as in_stock, and total - in_stock as out_of_stock (so the two add up
\* to total and neither is negative; the filter in_stock=false gives
\* in_stock = 0 and out_of_stock = total); with a category_id that is not
\* stored it fails with 404.
ProductsCountMatchesFilter ==
    request.op = "get_products_count" =>
        IF request.category_id # None
           /\ ~ \E c \in categories : c.id = request.category_id[1]
        THEN response.status = HTTP_404_NOT_FOUND
        ELSE LET matching ==
                     {p \in products :
                         /\ request.category_id # None =>
                               p.category_id = request.category_id[1]
                         /\ request.in_stock # None =>
                               p.in_stock = request.in_stock[1]}
                 in_stock == {p \in matching : p.in_stock}
             IN /\ response.status = HTTP_200_OK
                /\ response.body.total = Cardinality(matching)
                /\ response.body.in_stock = Cardinality(in_stock)
                /\ response.body.out_of_stock =
                      Cardinality(matching) - Cardinality(in_stock)
                /\ response.body.in_stock + response.body.out_of_stock =
                      response.body.total
                /\ response.body.in_stock >= 0 /\ response.body.out_of_stock >= 0
                /\ request.in_stock = Some(FALSE) =>
                      /\ response.body.in_stock = 0
                      /\ response.body.out_of_stock = response.body.total

\* C6 witness: a count filtered on in_stock=false over a table that holds a
\* product in stock and one out of stock.
CountOfOutOfStockProducts ==
    /\ request.op = "get_products_count"
    /\ request.in_stock = Some(FALSE)
    /\ response.status = HTTP_200_OK
    /\ response.body.total = 1 /\ response.body.out_of_stock = 1
    /\ \E p \in products : p.in_stock

\* C7: get_products_statistics succeeds; over an empty product table it
\* returns the three counts as 0 and the average, minimum, maximum and both
\* extremal products as null; over a non-empty one out_of_stock_count is
\* total_products - in_stock_count and the extremal products have the
\* maximum and the minimum price.
StatisticsOfEmptyAndNonEmptyTable ==
    request.op = "get_products_statistics" =>
        /\ response.status = HTTP_200_OK
        /\ IF products = {}
           THEN /\ response.body.total_products = 0
                /\ response.body.in_stock_count = 0
                /\ response.body.out_of_stock_count = 0
                /\ response.body.average_price = None
                /\ response.body.min_price = None
                /\ response.body.max_price = None
                /\ response.body.most_expensive_product = None
                /\ response.body.cheapest_product = None
           ELSE /\ response.body.total_products = Cardinality(products)
                /\ response.body.out_of_stock_count =
                      response.body.total_products - response.body.in_stock_count
                /\ response.body.max_price # None
                /\ response.body.min_price # None
                /\ \A p \in products :
                      /\ p.price <= response.body.max_price[1]
                      /\ p.price >= response.body.min_price[1]
                /\ response.body.most_expensive_product # None
                /\ response.body.cheapest_product # None
                /\ response.body.most_expensive_product[1].price =
                      response.body.max_price[1]
                /\ response.body.cheapest_product[1].price =
                      response.body.min_price[1]

\* C7 witness: statistics taken over an empty product table.
StatisticsOfEmptyTable ==
    /\ request.op = "get_products_statistics"
    /\ products = {}
    /\ response.status = HTTP_200_OK
    /\ response.body.average_price = None
    /\ response.body.out_of_stock_count = 0

\* name occurs in product_name, whatever the case of the letters.
ContainsIgnoringCase(product_name, name) ==
    \E i \in 1..(Len(product_name) - Len(name) + 1) :
        \A k \in 1..Len(name) : Lower(product_name[i + k - 1]) = Lower(name[k])

\* the products that satisfy all the filters a search request supplies
Satisfying(q) ==
    {p \in products :
        /\ q.name # None => ContainsIgnoringCase(p.name, q.name[1])
        /\ q.category_id # None => p.category_id = q.category_id[1]
        /\ q.min_price # None => p.price >= q.min_price[1]
        /\ q.max_price # None => p.price <= q.max_price[1]
        /\ q.in_stock # None => p.in_stock = q.in_stock[1]}

\* items is the page [offset, offset + limit) of an ordering of rows, and
\* total their number
IsPageOf(body, rows, sort_by, limit, offset) ==
    LET n == Cardinality(rows)
        rest == IF n - offset > 0 THEN n - offset ELSE 0
    IN /\ body.total = n
       /\ Len(body.items) = (IF limit < rest THEN limit ELSE rest)
       /\ Len(body.items) <= limit
       /\ \E ordered \in Orderings(rows, sort_by) :
             body.items = Page(ordered, limit, offset)

\* C4: for every valid request advanced_search_products returns as total the
\* number of products that satisfy all the supplied filters (name substring,
\* category_id, min_price, max_price, in_stock) and as items the positions
\* [offset, offset + limit) of the filtered, sorted sequence; so does
\* get_products_paginated over all products.
SearchReturnsPageOfSatisfyingProducts ==
    /\ (request.op = "advanced_search_products"
        /\ ~ (request.query.min_price # None /\ request.query.max_price # None
              /\ request.query.min_price[1] > request.query.max_price[1])
        /\ (request.query.category_id # None =>
               \E c \in categories : c.id = request.query.category_id[1])) =>
           /\ response.status = HTTP_200_OK
           /\ IsPageOf(response.body, Satisfying(request.query), request.query.sort_by,
                       request.query.limit, request.query.offset)
    /\ request.op = "get_products_paginated" =>
           /\ response.status = HTTP_200_OK
           /\ IsPageOf(response.body, products, None, request.limit, request.offset)

\* C5: advanced_search_products with both price bounds supplied and
\* min_price > max_price fails with 400 whatever the other parameters and the
\* store are, a category_id that is not stored included, and queries no
\* products.
PriceRangeCheckedFirst ==
    (/\ request.op = "advanced_search_products"
     /\ request.query.min_price # None /\ request.query.max_price # None
     /\ request.query.min_price[1] > request.query.max_price[1]) =>
        /\ response.status = HTTP_400_BAD_REQUEST
        /\ "products" \notin queried

\* C5 witness: a search with min_price > max_price and a category_id that
\* is not stored, refused with 400.
InvertedPriceRangeWithUnknownCategory ==
    /\ request.op = "advanced_search_products"
    /\ request.query.min_price = Some(20) /\ request.query.max_price = Some(0)
    /\ request.query.category_id # None
    /\ ~ \E c \in categories : c.id = request.query.category_id[1]
    /\ response.status = HTTP_400_BAD_REQUEST

\* C9: when two create_category requests with the same name both look the
\* name up before either inserts, neither look-up finds a category and both
\* inserts are performed, so two categories of that name are stored: the
\* handler's check does not exclude the duplicate.
ConcurrentCreatesBothInsert ==
    \A w1, w2 \in Workers :
        (/\ w1 # w2
         /\ sessions[w1].pc = "done" /\ sessions[w2].pc = "done"
         /\ sessions[w1].data.name = sessions[w2].data.name
         /\ ~ sessions[w1].existing_category /\ ~ sessions[w2].existing_category) =>
            /\ sessions[w1].status = HTTP_201_CREATED
            /\ sessions[w2].status = HTTP_201_CREATED
            /\ \E c1, c2 \in categories :
                  /\ c1.id # c2.id
                  /\ c1.name = sessions[w1].data.name
                  /\ c2.name = sessions[w1].data.name

\* C9 witness: both requests are answered 201 and two categories of the
\* requested name are stored.
TwoCategoriesOfOneNameStored ==
    /\ \A w \in Workers : sessions[w].pc = "done" /\ sessions[w].status = HTTP_201_CREATED
    /\ \E c1, c2 \in categories : c1.id # c2.id /\ c1.name = c2.name

====
